---- MODULE Spec2Model ----
(***************************************************************************)
(* Battery report generator: the two Streamlit scripts of the repository   *)
(*   "narrow": src/unnamed/part_000      (deep/partial/eff/Tmax KPIs)      *)
(*   "broad" : src/battery_report_app.py (over-discharge/over-charge/...)  *)
(* Each script run is the pipeline                                         *)
(*   load_data -> compute_indicators -> st.metric x3 -> create_charts      *)
(*   -> st.image x2 -> build_pdf -> st.download_button                     *)
(* An uncaught Python exception ends the script run where it is raised;    *)
(* what Streamlit has rendered up to that point stays on the page.         *)
(*                                                                         *)
(* Numbers.  A float is a record [nan, n, d]: NaN, or the rational n/d     *)
(* with d > 0.  Arithmetic is exact (binary rounding is not modelled).     *)
(*                                                                         *)
(* Sheets.  A sheet is [cols, rows]; the "Cycle Count" column is the row   *)
(* index 1..n and is always present.  The pandas and matplotlib calls the  *)
(* scripts make are modelled by what they do with NaN and with empty data. *)
(***************************************************************************)
EXTENDS Integers, Sequences, FiniteSets, TLC

VARIABLES variant, ready, c_nom, dod_thr, df_raw, pc, df, stats, charts, pdf, shown, err

vars == <<variant, ready, c_nom, dod_thr, df_raw, pc, df, stats, charts, pdf, shown, err>>

\* Largest number of cycle records (rows) in an uploaded sheet.
MaxRows == 2

(***************************************************************************)
(* Floats                                                                  *)
(***************************************************************************)
NaN == [nan |-> TRUE, n |-> 0, d |-> 1]

Num(v) == [nan |-> FALSE, n |-> v, d |-> 1]

RECURSIVE Gcd(_, _)
Gcd(a, b) == IF b = 0 THEN a ELSE Gcd(b, a % b)

\* the rational a/b (b > 0) in lowest terms
Frac(a, b) ==
    LET g == Gcd(IF a < 0 THEN -a ELSE a, b)
    IN  [nan |-> FALSE, n |-> a \div g, d |-> b \div g]

\* IEEE comparisons: every comparison with NaN is False.
Lt(a, b) == ~a.nan /\ ~b.nan /\ a.n * b.d < b.n * a.d

Gt(a, b) == Lt(b, a)

Le(a, b) == ~a.nan /\ ~b.nan /\ a.n * b.d <= b.n * a.d

Ge(a, b) == Le(b, a)

Same(a, b) == ~a.nan /\ ~b.nan /\ a.n * b.d = b.n * a.d

Add(a, b) ==
    IF a.nan \/ b.nan THEN NaN ELSE Frac(a.n * b.d + b.n * a.d, a.d * b.d)

\* a * (k/m), m > 0
Scale(a, k, m) == IF a.nan THEN NaN ELSE Frac(a.n * k, a.d * m)

\* float division by a non-zero float
Div(a, b) ==
    IF a.nan \/ b.nan THEN NaN
    ELSE IF b.n > 0 THEN Frac(a.n * b.d, a.d * b.n)
    ELSE Frac(-(a.n * b.d), -(a.d * b.n))

\* bool(x) of a float: 0.0 is falsy, everything else (NaN too) is truthy
Truthy(a) == a.nan \/ a.n # 0

\* Python's builtin max(a, b): keeps a unless b > a
PyMax(a, b) == IF Gt(b, a) THEN b ELSE a

(***************************************************************************)
(* Spreadsheet cells and pandas columns                                    *)
(***************************************************************************)
\* A raw cell is a number or something that is no number (text, blank).
RawNum(v) == [num |-> TRUE, val |-> v]

RawBad == [num |-> FALSE, val |-> 0]

\* pd.to_numeric(..., errors='coerce') on one cell
to_numeric(cell) == IF cell.num THEN Num(cell.val) ELSE NaN

\* the column named c of frame f, as a sequence of cells
Column(f, c) == [i \in 1..Len(f.rows) |-> f.rows[i][c]]

\* df[new] = pd.to_numeric(df[old], errors='coerce')
Coerce(f, old, new) ==
    [cols |-> f.cols \cup {new},
     rows |-> [i \in 1..Len(f.rows) |-> (new :> to_numeric(f.rows[i][old])) @@ f.rows[i]]]

RECURSIVE SeriesSum(_)
\* Series.sum(): skips NaN, 0 for an empty or all-NaN series
SeriesSum(s) ==
    IF s = <<>> THEN Num(0)
    ELSE IF Head(s).nan THEN SeriesSum(Tail(s))
    ELSE Add(Head(s), SeriesSum(Tail(s)))

RECURSIVE SeriesMax(_)
\* Series.max(): skips NaN, NaN for an empty or all-NaN series
SeriesMax(s) ==
    IF s = <<>> THEN NaN
    ELSE LET r == SeriesMax(Tail(s))
         IN  IF Head(s).nan THEN r
             ELSE IF r.nan \/ Gt(Head(s), r) THEN Head(s) ELSE r

RECURSIVE NotNaCount(_)
NotNaCount(s) ==
    IF s = <<>> THEN 0 ELSE (IF Head(s).nan THEN 0 ELSE 1) + NotNaCount(Tail(s))

\* Series.mean(): mean of the non-NaN entries, NaN when there is none
SeriesMean(s) ==
    IF NotNaCount(s) = 0 THEN NaN ELSE Div(SeriesSum(s), Num(NotNaCount(s)))

RECURSIVE ArrayMax(_)
\* ndarray.max() of a non-empty array: a NaN anywhere makes the result NaN
ArrayMax(s) ==
    IF Len(s) = 1 THEN Head(s)
    ELSE LET r == ArrayMax(Tail(s))
         IN  IF Head(s).nan \/ r.nan THEN NaN
             ELSE IF Gt(Head(s), r) THEN Head(s) ELSE r

RECURSIVE CountGe(_, _)
\* (series >= x).sum()
CountGe(s, x) ==
    IF s = <<>> THEN 0 ELSE (IF Ge(Head(s), x) THEN 1 ELSE 0) + CountGe(Tail(s), x)

RECURSIVE CountGt(_, _)
\* (series > x).sum()
CountGt(s, x) ==
    IF s = <<>> THEN 0 ELSE (IF Gt(Head(s), x) THEN 1 ELSE 0) + CountGt(Tail(s), x)

RECURSIVE CountLt(_, _)
\* (series < x).sum()
CountLt(s, x) ==
    IF s = <<>> THEN 0 ELSE (IF Lt(Head(s), x) THEN 1 ELSE 0) + CountLt(Tail(s), x)

(***************************************************************************)
(* compute_indicators                                                      *)
(***************************************************************************)
\* The sheet columns each variant reads; df[<absent column>] raises KeyError.
RequiredColumns(v) ==
    IF v = "narrow"
    THEN {"Ah_Discharged", "Ah_Charged_In_Charge_Phase", "SoC_at_End_of_Charge",
          "Max_Temperature_At_Cycle"}
    ELSE {"SoC_at_End_of_Discharge", "SoC_at_End_of_Charge",
          "Max_Temperature_At_Cycle", "Min_Temperature_At_Cycle",
          "Ah_Discharged", "Ah_Charged_In_Charge_Phase"}

\* Faulty variant: the zero-sum guard yields 0.0 instead of NaN.
Efficiency_ZeroDefault(f) ==
    LET dis == SeriesSum(Column(f, "Ah_dis"))
    IN  IF Truthy(dis) THEN Div(SeriesSum(Column(f, "Ah_chg")), dis) ELSE Num(0)

\* sum(Ah_chg) / sum(Ah_dis) if sum(Ah_dis) else nan
Efficiency(f) ==
    LET dis == SeriesSum(Column(f, "Ah_dis"))
    IN  IF Truthy(dis) THEN Div(SeriesSum(Column(f, "Ah_chg")), dis) ELSE NaN

\* Faulty variant: a strict comparison, > instead of >=.
DeepCount_Strict(f, cap, thr) == CountGt(Column(f, "Ah_dis"), Frac(cap * thr, 100))

\* deep = (df['Ah_dis'] >= c_nom * dod_thr).sum(); thr is dod_thr in percent
DeepCount(f, cap, thr) == CountGe(Column(f, "Ah_dis"), Frac(cap * thr, 100))

\* full = (df['SoC_end_charge'] >= 99).sum()
FullCount(f) == CountGe(Column(f, "SoC_end_charge"), Num(99))

\* Faulty variant: partial counted as (SoC_end_charge < 99).sum(), which skips NaN.
PartialCount_BelowOnly(f) == CountLt(Column(f, "SoC_end_charge"), Num(99))

\* partial = total - full
PartialCount(f) == Len(f.rows) - FullCount(f)

NarrowCoerced(f) ==
    Coerce(Coerce(Coerce(Coerce(f,
        "Ah_Discharged", "Ah_dis"),
        "Ah_Charged_In_Charge_Phase", "Ah_chg"),
        "SoC_at_End_of_Charge", "SoC_end_charge"),
        "Max_Temperature_At_Cycle", "Tmax")

NarrowStats(f, cap, thr) ==
    [total          |-> Len(f.rows),
     deep           |-> DeepCount(f, cap, thr),
     full           |-> FullCount(f),
     partial        |-> PartialCount(f),
     eff            |-> Efficiency(f),
     cycles_above45 |-> CountGt(Column(f, "Tmax"), Num(45)),
     tmax_avg       |-> SeriesMean(Column(f, "Tmax"))]

BroadCoerced(f) ==
    Coerce(Coerce(Coerce(Coerce(Coerce(Coerce(f,
        "SoC_at_End_of_Discharge", "SoC_end_discharge"),
        "SoC_at_End_of_Charge", "SoC_end_charge"),
        "Max_Temperature_At_Cycle", "Tmax"),
        "Min_Temperature_At_Cycle", "Tmin"),
        "Ah_Discharged", "Ah_dis"),
        "Ah_Charged_In_Charge_Phase", "Ah_chg")

BroadStats(f) ==
    [total_cycles   |-> Len(f.rows),
     over_discharge |-> CountLt(Column(f, "SoC_end_discharge"), Num(20)),
     over_charge    |-> CountGt(Column(f, "SoC_end_charge"), Num(105)),
     high_temp      |-> CountGt(Column(f, "Tmax"), Num(45)),
     low_temp       |-> CountLt(Column(f, "Tmin"), Num(0)),
     full_charges   |-> FullCount(f),
     efficiency     |-> Efficiency(f)]

\* Faulty variant: an absent column is read as a column of missing values
\* (df.get / reindex) instead of raising KeyError.
compute_indicators_Lenient(v, f, cap, thr) ==
    LET filled == [cols |-> f.cols \cup RequiredColumns(v),
                   rows |-> [i \in 1..Len(f.rows) |->
                               [k \in RequiredColumns(v) |->
                                   IF k \in DOMAIN f.rows[i] THEN f.rows[i][k]
                                   ELSE RawBad]]]
    IN  IF v = "narrow"
        THEN LET g == NarrowCoerced(filled)
             IN  [raised |-> "", df |-> g, stats |-> NarrowStats(g, cap, thr)]
        ELSE LET g == BroadCoerced(filled)
             IN  [raised |-> "", df |-> g, stats |-> BroadStats(g)]

\* The result of a call: raised = "" when it returned, else the exception's name.
compute_indicators(v, f, cap, thr) ==
    IF ~(RequiredColumns(v) \subseteq f.cols)
    THEN [raised |-> "KeyError"]
    ELSE IF v = "narrow"
    THEN LET g == NarrowCoerced(f)
         IN  [raised |-> "", df |-> g, stats |-> NarrowStats(g, cap, thr)]
    ELSE LET g == BroadCoerced(f)
         IN  [raised |-> "", df |-> g, stats |-> BroadStats(g)]

(***************************************************************************)
(* matplotlib: axis limits                                                 *)
(***************************************************************************)
Abs(a) == IF a.n < 0 THEN Frac(-a.n, a.d) ELSE a

Sub(a, b) == Add(a, Scale(b, -1, 1))

RECURSIVE SeriesMin(_)
\* smallest non-NaN entry, NaN when there is none
SeriesMin(s) ==
    IF s = <<>> THEN NaN
    ELSE LET r == SeriesMin(Tail(s))
         IN  IF Head(s).nan THEN r
             ELSE IF r.nan \/ Lt(Head(s), r) THEN Head(s) ELSE r

\* Locator.nonsingular(v0, v1) with expander 0.05: an empty or zero-width
\* interval is widened.
nonsingular(v0, v1) ==
    IF v0.nan \/ v1.nan THEN [lo |-> Frac(-5, 100), hi |-> Frac(5, 100)]
    ELSE IF ~Same(v0, v1) THEN [lo |-> v0, hi |-> v1]
    ELSE IF v0.n = 0 THEN [lo |-> Frac(-5, 100), hi |-> Frac(5, 100)]
    ELSE [lo |-> Sub(v0, Scale(Abs(v0), 5, 100)), hi |-> Add(v1, Scale(Abs(v1), 5, 100))]

\* Axes.set_ylim(bottom, top): NaN limits raise ValueError
\* ("Axis limits cannot be NaN or Inf"); equal limits are widened.
set_ylim(bottom, top) ==
    IF bottom.nan \/ top.nan THEN [raised |-> "ValueError"]
    ELSE LET v == nonsingular(bottom, top)
         IN  [raised |-> "", lo |-> v.lo, hi |-> v.hi]

\* The limits matplotlib picks when the script sets none (autoscale_view with
\* the default 5% margin).  data: the plotted y values; a bar spans from its
\* base 0 to its height, and the base is a sticky edge the margin never
\* crosses.
autoscale_ylim(data, hasBars) ==
    LET v  == nonsingular(SeriesMin(data), SeriesMax(data))
        dl == Scale(Sub(v.hi, v.lo), 5, 100)
        lo == Sub(v.lo, dl)
        hi == Add(v.hi, dl)
    IN  [lo |-> IF hasBars /\ Ge(v.lo, Num(0)) /\ Lt(lo, Num(0)) THEN Num(0) ELSE lo,
         hi |-> IF hasBars /\ Le(v.hi, Num(0)) /\ Gt(hi, Num(0)) THEN Num(0) ELSE hi]

\* y data of a bar series: every bar's base 0 and its height
BarData(heights) == heights \o [i \in 1..Len(heights) |-> Num(0)]

(***************************************************************************)
(* create_charts                                                           *)
(***************************************************************************)
\* '✓' if SoC_end_charge >= 99 else '✗', one glyph per cycle
Glyphs(f) ==
    [i \in 1..Len(f.rows) |->
        IF Ge(f.rows[i]["SoC_end_charge"], Num(99)) THEN "complete" ELSE "incomplete"]

\* Faulty variant: the glyph row at the maximum itself, without the 5% margin.
NarrowYMax_NoMargin(f) == ArrayMax(Column(f, "Ah_dis") \o Column(f, "Ah_chg"))

\* narrow: y_max = df[['Ah_dis', 'Ah_chg']].values.max() * 1.05
NarrowYMax(f) == Scale(ArrayMax(Column(f, "Ah_dis") \o Column(f, "Ah_chg")), 105, 100)

\* broad: y_marker = max(df['Ah_dis'].max(), df['Ah_chg'].max()) * 1.05
BroadYMarker(f) ==
    Scale(PyMax(SeriesMax(Column(f, "Ah_dis")), SeriesMax(Column(f, "Ah_chg"))), 105, 100)

\* narrow: ax.set_ylim(0, y_max * 1.15)
NarrowAhLim(f) == set_ylim(Num(0), Scale(NarrowYMax(f), 115, 100))

\* Faulty variant: the upper limit without the 10% headroom, max(50, Tmax.max()).
NarrowTmaxLim_NoHeadroom(f) ==
    set_ylim(Num(0), PyMax(Num(50), SeriesMax(Column(f, "Tmax"))))

\* narrow: ax.set_ylim(0, max(50, df['Tmax'].max() * 1.1))
NarrowTmaxLim(f) ==
    set_ylim(Num(0), PyMax(Num(50), Scale(SeriesMax(Column(f, "Tmax")), 11, 10)))

\* broad: no set_ylim on the Ah axes
BroadAhLim(f) ==
    autoscale_ylim(BarData(Column(f, "Ah_dis") \o Column(f, "Ah_chg")), Len(f.rows) > 0)

\* broad: no set_ylim on the Tmax axes; ax.axhline(45) adds y = 45 to the
\* data limits, and the view is autoscaled over bars and line together
BroadTmaxLim(f) ==
    autoscale_ylim(BarData(Column(f, "Tmax")) \o <<Num(45)>>, Len(f.rows) > 0)

AhChart(f, ymark, line, lim) ==
    [dis |-> Column(f, "Ah_dis"), chg |-> Column(f, "Ah_chg"),
     glyph_y |-> ymark, glyphs |-> Glyphs(f), hline |-> line,
     ylim |-> [lo |-> lim.lo, hi |-> lim.hi]]

TmaxChart(f, lim) ==
    [bars |-> Column(f, "Tmax"), hline |-> Num(45), ylim |-> [lo |-> lim.lo, hi |-> lim.hi]]

narrow_create_charts(f, cap, thr) ==
    IF Len(f.rows) = 0 THEN [raised |-> "ValueError"]   \* max of a zero-size array
    ELSE LET ahLim == NarrowAhLim(f)
             tLim  == NarrowTmaxLim(f)
         IN  IF ahLim.raised # "" THEN [raised |-> ahLim.raised]
             ELSE IF tLim.raised # "" THEN [raised |-> tLim.raised]
             ELSE [raised |-> "",
                   charts |-> [ah_cycle   |-> AhChart(f, NarrowYMax(f),
                                                      Frac(cap * thr, 100), ahLim),
                               tmax_cycle |-> TmaxChart(f, tLim)]]

broad_create_charts(f) ==
    [raised |-> "",
     charts |-> [ah_cycle   |-> AhChart(f, BroadYMarker(f), NaN, BroadAhLim(f)),
                 tmax_cycle |-> TmaxChart(f, BroadTmaxLim(f))]]

create_charts(v, f, cap, thr) ==
    IF v = "narrow" THEN narrow_create_charts(f, cap, thr) ELSE broad_create_charts(f)

(***************************************************************************)
(* build_pdf                                                               *)
(***************************************************************************)
\* narrow: a two-column table (indicator, value); nothing is compared
narrow_build_pdf(st, ch, cap) ==
    [raised |-> "",
     doc |-> [total  |-> st.total,
              table  |-> <<st.deep, st.partial, st.eff, st.cycles_above45, st.tmax_avg>>,
              status |-> <<>>,
              images |-> <<"ah_cycle", "tmax_cycle">>]]

\* Faulty variant: >= 0 instead of > 0.
CountStatus_OffByOne(k) == IF k >= 0 THEN "Critico" ELSE "OK"

\* 'Critico' if count > 0 else 'OK'
CountStatus(k) == IF k > 0 THEN "Critico" ELSE "OK"

\* 'OK' if full_charges / total_cycles >= 0.95 else 'Da migliorare'
FullStatus(full, total) ==
    IF Ge(Frac(full, total), Frac(95, 100)) THEN "OK" ELSE "Da migliorare"

\* 'OK' if 1.05 <= efficiency <= 1.10 else 'Check'
EffStatus(e) ==
    IF Le(Frac(105, 100), e) /\ Le(e, Frac(110, 100)) THEN "OK" ELSE "Check"

\* broad: the Stato column; full_charges / total_cycles divides two ints
broad_build_pdf(st, ch) ==
    IF st.total_cycles = 0 THEN [raised |-> "ZeroDivisionError"]
    ELSE [raised |-> "",
          doc |-> [total  |-> st.total_cycles,
                   table  |-> <<st.over_discharge, st.over_charge, st.full_charges,
                                st.efficiency>>,
                   status |-> <<CountStatus(st.over_discharge), CountStatus(st.over_charge),
                                FullStatus(st.full_charges, st.total_cycles),
                                EffStatus(st.efficiency)>>,
                   images |-> <<"ah_cycle", "tmax_cycle">>]]

build_pdf(v, st, ch, cap) ==
    IF v = "narrow" THEN narrow_build_pdf(st, ch, cap) ELSE broad_build_pdf(st, ch)

(***************************************************************************)
(* The uploaded sheets and the sidebar inputs                              *)
(***************************************************************************)
Variants == {"narrow", "broad"}

\* st.number_input('Capacità nominale (Ah)', min_value=10, max_value=2000,
\* value=930, step=10); the broad script has no capacity input.
Capacities(v) == IF v = "narrow" THEN {900, 930} ELSE {930}

\* dod_thr: float = 0.8 is never passed by the scripts; kept in percent
DefaultDodThr == 80

\* The numbers a cell of each column takes in the sheets explored.  744 is
\* 0.8 * 930: with capacities 900 and 930 a discharge of 744 Ah lies above
\* and exactly on the deep-discharge line, 0 lies below it.
AhDisValues(v) == IF v = "narrow" THEN {RawNum(0), RawNum(744)} ELSE {RawNum(744)}

AhChgValues == {RawNum(800)}

SoCChargeValues == {RawNum(98), RawNum(99), RawNum(106)}

TmaxValues == {RawNum(-5), RawNum(46)}

TminValues == {RawNum(-6)}

SoCDischargeValues == {RawNum(10)}

\* A row whose cells are all numbers, by the columns the variant reads.
NumericRows(v) ==
    IF v = "narrow"
    THEN [Ah_Discharged : AhDisValues(v), Ah_Charged_In_Charge_Phase : AhChgValues,
          SoC_at_End_of_Charge : SoCChargeValues \ {RawNum(106)},
          Max_Temperature_At_Cycle : TmaxValues]
    ELSE [Ah_Discharged : AhDisValues(v), Ah_Charged_In_Charge_Phase : AhChgValues,
          SoC_at_End_of_Charge : SoCChargeValues, Max_Temperature_At_Cycle : TmaxValues,
          Min_Temperature_At_Cycle : TminValues,
          SoC_at_End_of_Discharge : SoCDischargeValues]

\* the row with the cell of column c replaced by something that is no number
Spoil(row, c) == [row EXCEPT ![c] = RawBad]

\* The rows of a sheet: all cells numeric, or one cell of the row malformed.
\* (A column is missing throughout when every row has its cell malformed.)
Rows(v) == NumericRows(v) \cup {Spoil(r, c) : r \in NumericRows(v), c \in RequiredColumns(v)}

\* the row without the cell of column c: the sheet has no such column
Drop(row, c) == [k \in (DOMAIN row) \ {c} |-> row[k]]

\* The rows of a sheet that has (hasTmax) or lacks the Tmax column.
SheetRows(v, hasTmax) ==
    IF hasTmax THEN Rows(v) ELSE {Drop(x, "Max_Temperature_At_Cycle") : x \in Rows(v)}

\* What load_data returns: the first sheet with its second row as header.
Sheet(v, hasTmax, rows) ==
    [cols |-> IF hasTmax THEN RequiredColumns(v)
              ELSE RequiredColumns(v) \ {"Max_Temperature_At_Cycle"},
     rows |-> rows]

NoFrame == [cols |-> {}, rows |-> <<>>]

None == [none |-> TRUE]

(***************************************************************************)
(* The script run                                                          *)
(***************************************************************************)
Init ==
    /\ variant \in Variants
    /\ c_nom \in Capacities(variant)
    /\ dod_thr = DefaultDodThr
    /\ ready \in BOOLEAN
    /\ IF ready
       THEN \E hasTmax \in BOOLEAN, k \in 0..MaxRows :
                \E rows \in [1..k -> SheetRows(variant, hasTmax)] :
                    df_raw = Sheet(variant, hasTmax, rows)
       ELSE df_raw = NoFrame
    /\ pc = "start"
    /\ df = NoFrame
    /\ stats = None
    /\ charts = None
    /\ pdf = None
    /\ shown = {}
    /\ err = ""

\* fig.savefig(...) and SimpleDocTemplate(...).build(flow) write under tmp/:
\* a call that got as far as writing either returns or raises OSError.
WithWriteFailure(res) == IF res.raised = "" THEN {res, [raised |-> "OSError"]} ELSE {res}

\* if uploaded_file is not None [and customer_name and battery_serial]: ...
\* else: st.info(...)   (the broad script has no else branch)
NoInput ==
    /\ pc = "start" /\ ~ready
    /\ pc' = "done"
    /\ shown' = IF variant = "narrow" THEN {"info"} ELSE {}
    /\ UNCHANGED <<variant, ready, c_nom, dod_thr, df_raw, df, stats, charts, pdf, err>>

\* df_raw = load_data(...); df, stats = compute_indicators(...);
\* st.subheader('KPI principali'); three st.metric tiles
ComputeAndShowKpi ==
    /\ pc = "start" /\ ready
    /\ \E r \in {compute_indicators(variant, df_raw, c_nom, dod_thr)} :
           IF r.raised # ""
           THEN /\ pc' = "failed" /\ err' = r.raised
                /\ UNCHANGED <<df, stats, shown>>
           ELSE /\ pc' = "kpi" /\ df' = r.df /\ stats' = r.stats
                /\ shown' = shown \cup {"kpi"}
                /\ UNCHANGED err
    /\ UNCHANGED <<variant, ready, c_nom, dod_thr, df_raw, charts, pdf>>

\* charts = create_charts(...); for img in charts.values(): st.image(img)
ChartsAndShowImages ==
    /\ pc = "kpi"
    /\ \E r \in WithWriteFailure(create_charts(variant, df, c_nom, dod_thr)) :
           IF r.raised # ""
           THEN /\ pc' = "failed" /\ err' = r.raised
                /\ UNCHANGED <<charts, shown>>
           ELSE /\ pc' = "charts" /\ charts' = r.charts
                /\ shown' = shown \cup {"ah_cycle", "tmax_cycle"}
                /\ UNCHANGED err
    /\ UNCHANGED <<variant, ready, c_nom, dod_thr, df_raw, df, stats, pdf>>

\* Faulty variant: the exception of build_pdf is swallowed and the download button
\* is offered all the same.
PdfAndShowDownload_Swallow ==
    /\ pc = "charts"
    /\ \E r \in WithWriteFailure(build_pdf(variant, stats, charts, c_nom)) :
           IF r.raised # ""
           THEN /\ pc' = "failed" /\ err' = r.raised
                /\ shown' = shown \cup {"download"}
                /\ UNCHANGED pdf
           ELSE /\ pc' = "done" /\ pdf' = r.doc
                /\ shown' = shown \cup {"download"}
                            \cup (IF variant = "broad" THEN {"info"} ELSE {})
                /\ UNCHANGED err
    /\ UNCHANGED <<variant, ready, c_nom, dod_thr, df_raw, df, stats, charts>>

\* build_pdf(...); st.download_button(...)   (broad: then st.info(...))
PdfAndShowDownload ==
    /\ pc = "charts"
    /\ \E r \in WithWriteFailure(build_pdf(variant, stats, charts, c_nom)) :
           IF r.raised # ""
           THEN /\ pc' = "failed" /\ err' = r.raised
                /\ UNCHANGED <<pdf, shown>>
           ELSE /\ pc' = "done" /\ pdf' = r.doc
                /\ shown' = shown \cup {"download"}
                            \cup (IF variant = "broad" THEN {"info"} ELSE {})
                /\ UNCHANGED err
    /\ UNCHANGED <<variant, ready, c_nom, dod_thr, df_raw, df, stats, charts>>

Next == NoInput \/ ComputeAndShowKpi \/ ChartsAndShowImages \/ PdfAndShowDownload

Spec == Init /\ [][Next]_vars

(***************************************************************************)
(* Properties.  They are stated over the uploaded sheet (df_raw) and the   *)
(* outputs of the run, not through the operators that compute the outputs. *)
(***************************************************************************)
Idx == 1..Len(df_raw.rows)

HasColumn(c) == c \in df_raw.cols

AllColumns == RequiredColumns(variant) \subseteq df_raw.cols

IsNumber(i, c) == df_raw.rows[i][c].num

Val(i, c) == df_raw.rows[i][c].val

\* the cells of the sheet that are no numbers
BadCells == {<<i, c>> \in Idx \X df_raw.cols : ~IsNumber(i, c)}

RECURSIVE RawTotalUpTo(_, _)
\* sum of the numeric cells of column c in rows 1..n
RawTotalUpTo(c, n) ==
    IF n = 0 THEN 0
    ELSE (IF IsNumber(n, c) THEN Val(n, c) ELSE 0) + RawTotalUpTo(c, n - 1)

RawTotal(c) == RawTotalUpTo(c, Len(df_raw.rows))

\* the numeric values of column c
RawValues(c) == {Val(i, c) : i \in {j \in Idx : IsNumber(j, c)}}

SetMax(S) == CHOOSE m \in S : \A x \in S : x <= m

AhValues == RawValues("Ah_Discharged") \cup RawValues("Ah_Charged_In_Charge_Phase")

KpiMade == stats # None

ChartsMade == charts # None

PdfMade == pdf # None

EffKpi == IF variant = "narrow" THEN stats.eff ELSE stats.efficiency

\* the float x equals the rational a/b (b # 0)
IsRatio(x, a, b) == ~x.nan /\ x.n * b = a * x.d

----------------------------------------------------------------------------
C2_SingleBadCellCompletes ==
    (AllColumns /\ Cardinality(BadCells) = 1) => ~(pc = "failed" /\ err # "OSError")

C4_EfficiencyGuard ==
    /\ (ready /\ pc # "start" /\ AllColumns) => KpiMade
    /\ KpiMade =>
          IF RawTotal("Ah_Discharged") = 0 THEN EffKpi.nan
          ELSE IsRatio(EffKpi, RawTotal("Ah_Charged_In_Charge_Phase"),
                       RawTotal("Ah_Discharged"))

\* a non-empty sheet whose discharged values are all zero, efficiency NaN
C4_Witness ==
    /\ KpiMade /\ Len(df_raw.rows) > 0 /\ EffKpi.nan
    /\ \A i \in Idx : IsNumber(i, "Ah_Discharged") /\ Val(i, "Ah_Discharged") = 0
    /\ RawTotal("Ah_Charged_In_Charge_Phase") > 0

\* C5 (as claimed): build_pdf, given the KPI mapping of compute_indicators
\* and both chart images, raises no error of its own (a failed write apart).
C5_BuildPdfNeverFails == ~(pc = "failed" /\ KpiMade /\ ChartsMade /\ err # "OSError")

C7_DeepCount ==
    (variant = "narrow" /\ KpiMade) =>
        stats.deep = Cardinality({i \in Idx : /\ IsNumber(i, "Ah_Discharged")
                                              /\ 100 * Val(i, "Ah_Discharged")
                                                     >= c_nom * dod_thr})

\* one cycle exactly on the line (counted), one below it (not counted)
C7_Witness ==
    /\ variant = "narrow" /\ KpiMade /\ stats.deep = 1
    /\ \E i, j \in Idx :
          /\ IsNumber(i, "Ah_Discharged") /\ IsNumber(j, "Ah_Discharged")
          /\ 100 * Val(i, "Ah_Discharged") = c_nom * dod_thr
          /\ 100 * Val(j, "Ah_Discharged") < c_nom * dod_thr

\* C8 (as claimed): every status of the KPI table is "OK", "Critico" or
\* "Da migliorare".
C8_ThreeStatuses ==
    (variant = "broad" /\ PdfMade) =>
        \A i \in DOMAIN pdf.status : pdf.status[i] \in {"OK", "Critico", "Da migliorare"}

\* C8 (amended): every status that build_pdf computes is one of "OK",
\* "Critico", "Da migliorare" and "Check": the two count rows are "Critico"
\* iff the count is > 0 and "OK" otherwise, the full-charge row is "OK" iff
\* full_charges / total_cycles >= 0.95 and "Da migliorare" otherwise, the
\* efficiency row is "OK" iff 1.05 <= efficiency <= 1.10 and "Check"
\* otherwise (also for NaN).
C8_FourStatuses ==
    (variant = "broad" /\ PdfMade) =>
        /\ Len(pdf.status) = 4
        /\ pdf.status[1] = (IF stats.over_discharge > 0 THEN "Critico" ELSE "OK")
        /\ pdf.status[2] = (IF stats.over_charge > 0 THEN "Critico" ELSE "OK")
        /\ pdf.status[3] = (IF 100 * stats.full_charges >= 95 * stats.total_cycles
                            THEN "OK" ELSE "Da migliorare")
        /\ pdf.status[4] = (IF /\ ~stats.efficiency.nan
                               /\ 105 * stats.efficiency.d <= 100 * stats.efficiency.n
                               /\ 100 * stats.efficiency.n <= 110 * stats.efficiency.d
                            THEN "OK" ELSE "Check")

\* a report whose efficiency row reads "Check" beside a "Da migliorare" row
C8_Witness ==
    /\ variant = "broad" /\ PdfMade
    /\ pdf.status[4] = "Check" /\ pdf.status[3] = "Da migliorare"
    /\ pdf.status[1] = "Critico" /\ pdf.status[2] = "OK"

\* the upper limit hi is at least the number a/b
AtLeast(hi, a, b) == ~hi.nan /\ hi.n * b >= a * hi.d

C10_AhAxisWithin115 ==
    (ChartsMade /\ AhValues # {}) =>
        LET a == charts.ah_cycle
            M == SetMax(AhValues)
        IN  /\ Le(Frac(105 * M, 100), a.ylim.hi)
            /\ Le(a.ylim.hi, Frac(115 * M, 100))
            /\ \A x \in AhValues : Ge(a.glyph_y, Num(x))
            /\ Le(a.glyph_y, a.ylim.hi)

\* C10 (amended): in every Ah chart drawn whose largest bar M is > 0 the
\* upper limit is between 1.05 M and 1.2075 M (= 1.05 * 1.15 * M).  Narrow:
\* the glyph row is at 1.05 M and the axis is set to [0, 1.15 * glyph row].
\* Broad: no limit is set and the autoscaled upper limit is 1.05 M; the glyph
\* row is at 1.05 M, or NaN (no glyph placed) when no discharged value is a
\* number.  A glyph row that is placed is at or above every bar and at or
\* below the upper limit.
C10_AhAxisWithin12075 ==
    (ChartsMade /\ AhValues # {} /\ SetMax(AhValues) > 0) =>
        LET a == charts.ah_cycle
            M == SetMax(AhValues)
        IN  /\ Le(Frac(105 * M, 100), a.ylim.hi)
            /\ Le(a.ylim.hi, Frac(12075 * M, 10000))
            /\ IF variant = "narrow"
               THEN /\ IsRatio(a.glyph_y, 105 * M, 100)
                    /\ Same(a.ylim.hi, Scale(a.glyph_y, 115, 100))
                    /\ Same(a.ylim.lo, Num(0))
               ELSE /\ IsRatio(a.ylim.hi, 105 * M, 100)
                    /\ IF RawValues("Ah_Discharged") = {} THEN a.glyph_y.nan
                       ELSE IsRatio(a.glyph_y, 105 * M, 100)
            /\ ~a.glyph_y.nan =>
                  /\ \A x \in AhValues : Ge(a.glyph_y, Num(x))
                  /\ Le(a.glyph_y, a.ylim.hi)

\* a narrow chart whose upper limit is above 1.15 times the largest bar
C10_Witness ==
    /\ variant = "narrow" /\ ChartsMade /\ Len(df_raw.rows) = MaxRows
    /\ Gt(charts.ah_cycle.ylim.hi, Frac(115 * SetMax(AhValues), 100))
    /\ Same(charts.ah_cycle.glyph_y, Frac(105 * SetMax(AhValues), 100))

====
